---- MODULE Spec2Model ----
(***************************************************************************)
(* Model of the fibril notebook (src/notebook.ipynb): the PQR generator of  *)
(* linear protein fibrils with explicit dipole charges and the direct-sum   *)
(* potential evaluator; and of the analysis cells of the evaporation        *)
(* notebook (src/monte-carlo-evaporation/evaporation.ipynb).                *)
(*                                                                          *)
(* Numbers.  A Python/numpy float is modelled by the exact rational it      *)
(* stands for, a reduced pair <<n, d>> with d > 0; a numpy 3-vector is a    *)
(* triple of such pairs.  All arithmetic is exact, so statements about      *)
(* values are statements of real arithmetic; float64 rounding is not        *)
(* modelled.  The IEEE special values that a division by zero produces are  *)
(* modelled explicitly (see calcPotential).                                 *)
(***************************************************************************)
EXTENDS Integers, Sequences, FiniteSets, TLC

(***************************************************************************)
(* Exact rational arithmetic (Python float operators)                       *)
(***************************************************************************)
Abs(i) == IF i < 0 THEN -i ELSE i

RECURSIVE Gcd(_, _)
Gcd(a, b) == IF b = 0 THEN a ELSE Gcd(b, a % b)

Lcm(a, b) == (a \div Gcd(a, b)) * b

\* the reduced form of n/d, d # 0
Reduce(n, d) ==
  LET g == Gcd(Abs(n), Abs(d))
      sg == IF d < 0 THEN -1 ELSE 1
  IN <<sg * (n \div g), sg * (d \div g)>>

R(i) == <<i, 1>>

RNeg(a) == <<-a[1], a[2]>>

RAbs(a) == <<Abs(a[1]), a[2]>>

RAdd(a, b) ==
  LET l == Lcm(a[2], b[2])
  IN Reduce(a[1] * (l \div a[2]) + b[1] * (l \div b[2]), l)

RSub(a, b) == RAdd(a, RNeg(b))

\* the factors are cancelled crosswise before they are multiplied
RMul(a, b) ==
  LET g1 == Gcd(Abs(a[1]), b[2])
      g2 == Gcd(Abs(b[1]), a[2])
  IN Reduce((a[1] \div g1) * (b[1] \div g2), (a[2] \div g2) * (b[2] \div g1))

\* a / b for b # 0
RDiv(a, b) == RMul(a, Reduce(b[2], b[1]))

\* a < b, by the continued-fraction expansions of a and b
RECURSIVE RLess(_, _)
RLess(a, b) ==
  LET fa == a[1] \div a[2]
      fb == b[1] \div b[2]
      ra == a[1] % a[2]
      rb == b[1] % b[2]
  IN IF fa # fb THEN fa < fb
     ELSE IF ra = 0 THEN rb > 0
     ELSE IF rb = 0 THEN FALSE
     ELSE RLess(<<b[2], rb>>, <<a[2], ra>>)

\* the integer whose square is i (the model stays where roots are rational)
ISqrt(i) == CHOOSE r \in 0..i : r * r = i

(***************************************************************************)
(* numpy 3-vectors                                                          *)
(***************************************************************************)
\* np.array([x, y, z]) of whole numbers
Vec(x, y, z) == <<R(x), R(y), R(z)>>

VAdd(v, w) == <<RAdd(v[1], w[1]), RAdd(v[2], w[2]), RAdd(v[3], w[3])>>

VSub(v, w) == <<RSub(v[1], w[1]), RSub(v[2], w[2]), RSub(v[3], w[3])>>

\* scalar * vector
VScale(c, v) == <<RMul(c, v[1]), RMul(c, v[2]), RMul(c, v[3])>>

\* vector / scalar
VDiv(v, c) == <<RDiv(v[1], c), RDiv(v[2], c), RDiv(v[3], c)>>

\* np.linalg.norm: sqrt(x*x + y*y + z*z).  The common rational factor g/D of
\* the components is taken out of the root, which leaves the root of a sum of
\* squares of small whole numbers.
Norm(v) ==
  LET D == Lcm(Lcm(v[1][2], v[2][2]), v[3][2])
      m == [i \in 1..3 |-> v[i][1] * (D \div v[i][2])]
      g == Gcd(Gcd(Abs(m[1]), Abs(m[2])), Abs(m[3]))
  IN IF g = 0 THEN R(0)
     ELSE LET w == [i \in 1..3 |-> m[i] \div g]
          IN RMul(Reduce(g, D), R(ISqrt(w[1] * w[1] + w[2] * w[2] + w[3] * w[3])))

(***************************************************************************)
(* Bounds of the model                                                      *)
(***************************************************************************)
\* largest number_of_proteins passed to a fibril builder
MaxProteins == 2

\* generator calls made on the arrays of one run of the example cell
MaxCalls == 2

\* largest atom counter passed to a direct makeDipoleEntry call
MaxCounter == 1

\* bead centres stay within this many Angstrom of the origin on every axis
MaxCoord == 90

\* entries of the 'analysis' list of out.json
MaxEntries == 2

\* rows of system_dipole_moment.dat.gz
MaxRows == 2

\* rows of mu_x.dat.gz, mu_y.dat.gz and mu_z.dat.gz
MaxSamples == 2

(***************************************************************************)
(* Protein properties, notebook cell 2                                      *)
(***************************************************************************)
DefaultRadius == 15

DefaultCharge == 2

DefaultDipoleScalar == 150

DefaultFictitiousCharge == 10

\* debye_to_electron_angstrom = 0.2081943
debye_to_electron_angstrom == Reduce(2081943, 10000000)

\* the values the four protein properties are set to: the notebook's own; a
\* unit net charge; a neutral bead whose dipole charges sit at 10 Angstrom; a
\* fictitious charge that is too small; and one for which the dipole charges
\* fall exactly on the bead surface
Configurations ==
  { [radius |-> R(DefaultRadius), charge |-> R(DefaultCharge),
     dipole_scalar |-> R(DefaultDipoleScalar), fictitious_charge |-> R(DefaultFictitiousCharge)],
    [radius |-> R(DefaultRadius), charge |-> R(1),
     dipole_scalar |-> R(DefaultDipoleScalar), fictitious_charge |-> R(DefaultFictitiousCharge)],
    [radius |-> R(DefaultRadius), charge |-> R(0),
     dipole_scalar |-> R(20), fictitious_charge |-> debye_to_electron_angstrom],
    [radius |-> R(DefaultRadius), charge |-> R(DefaultCharge),
     dipole_scalar |-> R(DefaultDipoleScalar), fictitious_charge |-> R(1)],
    [radius |-> R(DefaultRadius), charge |-> R(DefaultCharge),
     dipole_scalar |-> R(30), fictitious_charge |-> debye_to_electron_angstrom] }

\* starting points and growth directions the caller passes; every direction
\* is non-zero and has a rational length
Positions == { Vec(0, 0, 0), Vec(-30, 5, 0) }

Directions == { Vec(1, 0, 0), Vec(3, 4, 0), Vec(0, 0, -2) }

\* the points the potential is asked for: the notebook's own, the first
\* starting point, and a point 10 Angstrom along x
Targets == { Vec(0, -10, 0), Vec(0, 0, 0), Vec(10, 0, 0) }

WithinBox(v) ==
  \A i \in 1..3 : ~RLess(R(MaxCoord), RAbs(v[i]))

VARIABLES
  radius,                   \* protein radius
  charge,                   \* protein net-charge
  dipole_scalar,            \* protein dipole moment, Debye
  fictitious_charge,        \* charge of the explicit dipole charges
  global_position_storage,  \* generated point charges: [pos, charge, radius]
  position,                 \* the caller's starting-point array
  fibril_direction,         \* the caller's direction array
  call,                     \* the last generator call: arguments, text, outcome
  prev,                     \* the generator call before it, on the same arrays
  calls,                    \* generator calls made since the example cell ran
  potential,                \* what calcPotential returned, if it ran last
  caller_bjerrum_length,    \* a notebook global named bjerrum_length, 0 if unset
  out_json,                 \* out.json: its 'analysis' list
  system_dipole_moment_dat, \* system_dipole_moment.dat.gz: its rows
  mu_dat,                   \* mu_x.dat.gz, mu_y.dat.gz, mu_z.dat.gz: their rows
  out                       \* what the analysis cell that ran last computed

vars == <<radius, charge, dipole_scalar, fictitious_charge,
          global_position_storage, position, fibril_direction, call, prev, calls,
          potential, caller_bjerrum_length, out_json, system_dipole_moment_dat,
          mu_dat, out>>

\* the state of the fibril notebook
fibrils == <<radius, charge, dipole_scalar, fictitious_charge,
             global_position_storage, position, fibril_direction, call, prev, calls,
             potential, caller_bjerrum_length>>

\* the state of the evaporation notebook: the simulation output and the
\* result of the last analysis cell
evaporation == <<out_json, system_dipole_moment_dat, mu_dat, out>>

config == <<radius, charge, dipole_scalar, fictitious_charge>>

(***************************************************************************)
(* PQR text                                                                 *)
(***************************************************************************)
\* round(a) as the 'f' presentation type rounds: to nearest, ties to even
RoundHalfEven(a) ==
  LET q == a[1] \div a[2]
      r == a[1] % a[2]
  IN IF 2 * r < a[2] THEN q
     ELSE IF 2 * r > a[2] THEN q + 1
     ELSE IF q % 2 = 0 THEN q ELSE q + 1

\* '{:8.3f}': the number of thousandths printed
Format3f(a) == RoundHalfEven(RMul(a, R(1000)))

\* '{:6.2f}': the number of hundredths printed
Format2f(a) == RoundHalfEven(RMul(a, R(100)))

\* one formatted ATOM line, field by field
PqrFormat(atom_cnt, atomname, resname, chain, residue_cnt, pos, q, r) ==
  [record |-> "ATOM", atom_cnt |-> atom_cnt, atomname |-> atomname, altloc |-> "A",
   resname |-> resname, chain |-> chain, residue_cnt |-> residue_cnt, icode |-> "0",
   x |-> Format3f(pos[1]), y |-> Format3f(pos[2]), z |-> Format3f(pos[3]),
   charge |-> Format2f(q), radius |-> Format2f(r)]

(***************************************************************************)
(* Helper functions, notebook cell 3                                        *)
(*                                                                          *)
(* A function that appends to global_position_storage takes the store it    *)
(* finds and returns the store it leaves, with the text it returns (the     *)
(* sequence of its lines) and, where it can fail, whether it raised.        *)
(***************************************************************************)
\* variant: the store is bound to a list of the new point charge alone
MakeAtomEntryRebinding(store, counter, pos, q, r) ==
  [store |-> << [pos |-> pos, charge |-> q, radius |-> r] >>,
   s |-> << PqrFormat(counter, "PRT", "PTR", "A", counter, pos, q, r) >>]

\* makeAtomEntry: appends a copy of the point charge to the store and returns
\* its ATOM line
MakeAtomEntry(store, counter, pos, q, r) ==
  [store |-> Append(store, [pos |-> pos, charge |-> q, radius |-> r]),
   s |-> << PqrFormat(counter, "PRT", "PTR", "A", counter, pos, q, r) >>]

\* displacement of the two dipole charges from the bead centre
DipoleDisplacement(dipole_direction) ==
  VDiv(VScale(RMul(debye_to_electron_angstrom, dipole_scalar),
              VDiv(dipole_direction, Norm(dipole_direction))),
       RMul(R(2), fictitious_charge))

\* variant: the check written with <=
DisplacementUpToSurface(displacement) == ~RLess(radius, Norm(displacement))

\* assert np.linalg.norm(displacement) < radius
DisplacementInsideBead(displacement) == RLess(Norm(displacement), radius)

\* np.testing.assert_almost_equal(actual, desired), 7 decimals
AlmostEqual(actual, desired) ==
  RLess(RAbs(RSub(desired, actual)), Reduce(15, 100000000))

\* mu = (position + displacement) * fictitious_charge
\*      + (position - displacement) * (-fictitious_charge)
ExplicitDipole(pos, displacement) ==
  VAdd(VScale(fictitious_charge, VAdd(pos, displacement)),
       VScale(RNeg(fictitious_charge), VSub(pos, displacement)))

\* the end of makeDipoleEntry: the check that the explicit dipole matches the
\* input value, and the return of the three lines
DipoleEntryReturn(bead, plus, minus, mu) ==
  IF ~AlmostEqual(Norm(mu), RMul(dipole_scalar, debye_to_electron_angstrom))
  THEN [store |-> minus.store, s |-> <<>>, raised |-> TRUE]
  ELSE [store |-> minus.store, s |-> bead.s \o plus.s \o minus.s, raised |-> FALSE]

\* variant: the second charge is entered with the sign of the first
DipoleEntryMinusSameSign(bead, plus, counter, pos, displacement) ==
  DipoleEntryReturn(bead, plus,
                    MakeAtomEntry(plus.store, counter + 2, VSub(pos, displacement),
                                  fictitious_charge, R(1)),
                    ExplicitDipole(pos, displacement))

\* the negative charge, after the positive one
DipoleEntryMinus(bead, plus, counter, pos, displacement) ==
  DipoleEntryReturn(bead, plus,
                    MakeAtomEntry(plus.store, counter + 2, VSub(pos, displacement),
                                  RNeg(fictitious_charge), R(1)),
                    ExplicitDipole(pos, displacement))

\* variant: the negative charge is placed at position + displacement as well
DipoleEntryChargesBothForward(bead, counter, pos, displacement) ==
  IF ~DisplacementInsideBead(displacement)
  THEN [store |-> bead.store, s |-> <<>>, raised |-> TRUE]
  ELSE DipoleEntryMinus(bead,
                        MakeAtomEntry(bead.store, counter + 1, VAdd(pos, displacement),
                                      fictitious_charge, R(1)),
                        counter, pos, VScale(R(-1), displacement))

\* makeDipoleEntry after the bead: the assert, then the positive charge
DipoleEntryCharges(bead, counter, pos, displacement) ==
  IF ~DisplacementInsideBead(displacement)
  THEN [store |-> bead.store, s |-> <<>>, raised |-> TRUE]
  ELSE DipoleEntryMinus(bead,
                        MakeAtomEntry(bead.store, counter + 1, VAdd(pos, displacement),
                                      fictitious_charge, R(1)),
                        counter, pos, displacement)

\* variant: the bead is entered as a neutral particle
MakeDipoleEntryNeutralBead(store, counter, pos, dipole_direction) ==
  DipoleEntryCharges(MakeAtomEntry(store, counter, pos, R(0), radius),
                     counter, pos, DipoleDisplacement(dipole_direction))

\* makeDipoleEntry: the bead is entered first; raised is TRUE when an assertion
\* failed, and then no text is returned
MakeDipoleEntry(store, counter, pos, dipole_direction) ==
  DipoleEntryCharges(MakeAtomEntry(store, counter, pos, charge, radius),
                     counter, pos, DipoleDisplacement(dipole_direction))

\* variant: beads one radius apart
FibrilDisplacementOneRadius(direction) ==
  VDiv(VScale(radius, direction), Norm(direction))

\* 2.0 * radius * direction / np.linalg.norm(direction)
FibrilDisplacement(direction) ==
  VDiv(VScale(RMul(R(2), radius), direction), Norm(direction))

\* s += <text of one entry>, in front of what the rest of the loop returns
PrependText(s, rest) ==
  [rest EXCEPT !.s = IF rest.raised THEN <<>> ELSE s \o rest.s]

\* the loop of makeMonopoleFibril from the given counter on; pos is the running
\* position array, whose last value is returned as `initial`
RECURSIVE MonopoleLoop(_, _, _, _, _)
RECURSIVE MonopoleStep(_, _, _, _, _)
MonopoleLoop(store, pos, counter, number_of_proteins, displacement) ==
  IF counter >= number_of_proteins
  THEN [store |-> store, s |-> <<>>, raised |-> FALSE, initial |-> pos]
  ELSE MonopoleStep(MakeAtomEntry(store, counter + 1, pos, charge, radius),
                    pos, counter, number_of_proteins, displacement)

\* variant: makeAtomEntry stores the array it was given, not a copy, so the
\* record just stored moves with position += displacement
MonopoleStepSharedArray(entry, pos, counter, number_of_proteins, displacement) ==
  PrependText(entry.s,
              MonopoleLoop([entry.store EXCEPT ![Len(entry.store)].pos = VAdd(pos, displacement)],
                           VAdd(pos, displacement), counter + 1,
                           number_of_proteins, displacement))

\* one turn of the loop after its makeAtomEntry call: position += displacement
MonopoleStep(entry, pos, counter, number_of_proteins, displacement) ==
  PrependText(entry.s, MonopoleLoop(entry.store, VAdd(pos, displacement), counter + 1,
                                    number_of_proteins, displacement))

\* variant: the loop runs over range(1, number_of_proteins)
MakeMonopoleFibrilFromOne(store, number_of_proteins, initial_position, direction) ==
  MonopoleLoop(store, initial_position, 1, number_of_proteins,
               FibrilDisplacement(direction))

\* makeMonopoleFibril.  initial_position[:] is a view of the caller's array,
\* so the running position of the loop is the caller's array: `initial` in the
\* result is the value that array holds when the call returns.
MakeMonopoleFibril(store, number_of_proteins, initial_position, direction) ==
  MonopoleLoop(store, initial_position, 0, number_of_proteins,
               FibrilDisplacement(direction))

\* the loop of makeDipoleFibril; a failed assertion ends it
RECURSIVE DipoleLoop(_, _, _, _, _, _)
RECURSIVE DipoleStep(_, _, _, _, _, _)
DipoleLoop(store, pos, counter, number_of_proteins, direction, displacement) ==
  IF counter >= number_of_proteins
  THEN [store |-> store, s |-> <<>>, raised |-> FALSE]
  ELSE DipoleStep(MakeDipoleEntry(store, counter + 1, pos, direction),
                  pos, counter, number_of_proteins, direction, displacement)

\* one turn of the loop after its makeDipoleEntry call
DipoleStep(entry, pos, counter, number_of_proteins, direction, displacement) ==
  IF entry.raised THEN entry
  ELSE PrependText(entry.s, DipoleLoop(entry.store, VAdd(pos, displacement), counter + 1,
                                       number_of_proteins, direction, displacement))

\* the caller's array after a call that works on a deep copy of it
KeepsArray(ret, array) ==
  [store |-> ret.store, s |-> ret.s, raised |-> ret.raised, initial |-> array]

\* makeDipoleFibril.  The running position is a deep copy, the caller's array
\* keeps its value.
MakeDipoleFibril(store, number_of_proteins, initial_position, direction) ==
  KeepsArray(DipoleLoop(store, initial_position, 0, number_of_proteins, direction,
                        FibrilDisplacement(direction)),
             initial_position)

(***************************************************************************)
(* Electric potential, notebook cell 5                                      *)
(*                                                                          *)
(* A float that calcPotential computes is written as the sum it stands for: *)
(* kind "finite" with the terms <<charge_i, r_i>> added so far, of value    *)
(* sum of charge_i / |r_i|, or one of the IEEE values a division by a zero  *)
(* distance produces (numpy warns and goes on): "inf", "-inf", "nan".       *)
(***************************************************************************)
bjerrum_length == 7 * 80

ZeroVector(v) == v[1][1] = 0 /\ v[2][1] = 0 /\ v[3][1] = 0

\* point_charge / distance, with distance = np.linalg.norm(r)
Quotient(point_charge, r) ==
  IF ~ZeroVector(r) THEN [kind |-> "finite", terms |-> << <<point_charge, r>> >>]
  ELSE IF point_charge[1] > 0 THEN [kind |-> "inf", terms |-> <<>>]
  ELSE IF point_charge[1] < 0 THEN [kind |-> "-inf", terms |-> <<>>]
  ELSE [kind |-> "nan", terms |-> <<>>]

\* a + b of two floats
FloatAdd(a, b) ==
  IF a.kind = "nan" \/ b.kind = "nan" THEN [kind |-> "nan", terms |-> <<>>]
  ELSE IF a.kind = "finite" /\ b.kind = "finite"
       THEN [kind |-> "finite", terms |-> a.terms \o b.terms]
  ELSE IF a.kind = "finite" THEN b
  ELSE IF b.kind = "finite" \/ a.kind = b.kind THEN a
  ELSE [kind |-> "nan", terms |-> <<>>]

\* the loop of calcPotential over the rest of the store
RECURSIVE PotentialLoop(_, _, _)
PotentialLoop(store, target_position, acc) ==
  IF store = <<>> THEN acc
  ELSE LET distance_vector == VSub(target_position, Head(store).pos)
       IN PotentialLoop(Tail(store), target_position,
                        FloatAdd(acc, Quotient(Head(store).charge, distance_vector)))

\* variant: the sum is returned without the Bjerrum length
CalcPotentialUnscaled(store, target_position) ==
  LET sum == PotentialLoop(store, target_position, [kind |-> "finite", terms |-> <<>>])
  IN [target_position |-> target_position, kind |-> sum.kind,
      factor |-> 1, terms |-> sum.terms]

\* calcPotential: factor * (sum of the terms), or the IEEE value the sum became
CalcPotential(store, target_position) ==
  LET sum == PotentialLoop(store, target_position, [kind |-> "finite", terms |-> <<>>])
  IN [target_position |-> target_position, kind |-> sum.kind,
      factor |-> bjerrum_length, terms |-> sum.terms]

NoPotential ==
  [target_position |-> Vec(0, 0, 0), kind |-> "none", factor |-> 0, terms |-> <<>>]

(***************************************************************************)
(* Analysis cells of the evaporation notebook                               *)
(*                                                                          *)
(* A Python dict that is iterated is the sequence of its items <<key,       *)
(* value>> in insertion order; a dict that is only indexed is a function    *)
(* from its keys.  A function that can fail returns a record whose field    *)
(* `raised` names the exception, "none" if it returned.                     *)
(***************************************************************************)
\* to_debye = 1.0 / 0.2081943
to_debye == RDiv(R(1), Reduce(2081943, 10000000))

\* the value of a name that was never bound
NoValue == <<>>

Returned(value) == [raised |-> "none", value |-> value]

Raised(exception) == [raised |-> exception, value |-> NoValue]

\* val['molecules']['protein'], then multipole['\mu'] * to_debye
MultipoleMoment(val) ==
  IF "molecules" \notin DOMAIN val THEN Raised("KeyError")
  ELSE IF "protein" \notin DOMAIN val["molecules"] THEN Raised("KeyError")
  ELSE IF "mu" \notin DOMAIN val["molecules"]["protein"] THEN Raised("KeyError")
  ELSE Returned(RMul(val["molecules"]["protein"]["mu"], to_debye))

\* for key, val in analysis.items(): the items of one entry from item j on,
\* then the entries after it
RECURSIVE ScanAnalysis(_, _, _)
ScanAnalysis(analysis, i, j) ==
  IF i > Len(analysis) THEN Raised("AssertionError")
  ELSE IF j > Len(analysis[i]) THEN ScanAnalysis(analysis, i + 1, 1)
  ELSE IF analysis[i][j][1] = "multipole" THEN MultipoleMoment(analysis[i][j][2])
  ELSE ScanAnalysis(analysis, i, j + 1)

\* variant: a document without a multipole entry gives a zero moment
GetBareDipoleMomentOrZero(analysis) ==
  IF ScanAnalysis(analysis, 1, 1).raised = "AssertionError" THEN Returned(R(0))
  ELSE ScanAnalysis(analysis, 1, 1)

\* getBareDipoleMoment, given the 'analysis' list of the file
GetBareDipoleMoment(analysis) == ScanAnalysis(analysis, 1, 1)

\* np.loadtxt(filename, usecols=[usecol]): the column as an array; axes of
\* length one are squeezed, so a file of one row gives a 0-d array
LoadTxt(rows, usecol) ==
  [ndim |-> IF Len(rows) = 1 THEN 0 ELSE 1,
   data |-> [i \in 1..Len(rows) |-> rows[i][usecol + 1]]]

\* array[-1]
LastElement(array) ==
  IF array.ndim = 0 \/ array.data = <<>> THEN Raised("IndexError")
  ELSE Returned(array.data[Len(array.data)])

\* value * to_debye of a call that returned
ToDebye(ret) ==
  IF ret.raised # "none" THEN ret ELSE Returned(RMul(ret.value, to_debye))

\* getSystemDipoleMoment, given the rows of the file
GetSystemDipoleMoment(rows) == ToDebye(LastElement(LoadTxt(rows, 2)))

\* the cell of the reduction factor after its two reads, for
\* number_of_proteins = n
Reduction(n, mu_single_protein, mu_system) ==
  IF mu_single_protein.raised # "none"
  THEN [op |-> "reduction", raised |-> mu_single_protein.raised, n |-> n,
        mu_single_protein |-> NoValue, mu_system |-> NoValue,
        mu_single_protein_with_counter_ions |-> NoValue, factor |-> NoValue]
  ELSE IF mu_system.raised # "none"
  THEN [op |-> "reduction", raised |-> mu_system.raised, n |-> n,
        mu_single_protein |-> mu_single_protein.value, mu_system |-> NoValue,
        mu_single_protein_with_counter_ions |-> NoValue, factor |-> NoValue]
  ELSE [op |-> "reduction", raised |-> "none", n |-> n,
        mu_single_protein |-> mu_single_protein.value, mu_system |-> mu_system.value,
        mu_single_protein_with_counter_ions |-> RDiv(mu_system.value, R(n)),
        factor |-> RDiv(mu_single_protein.value, RDiv(mu_system.value, R(n)))]

\* array * to_debye
Scaled(array) ==
  [ndim |-> array.ndim, data |-> [i \in 1..Len(array.data) |-> RMul(array.data[i], to_debye)]]

\* float64 nan, the value of 0/0
NaN == <<0, 0>>

\* one column of mu / mu_len, with mu_len = np.sqrt((mu*mu).sum(axis=0))
UnitColumn(v) ==
  IF Norm(v) = R(0) THEN <<NaN, NaN, NaN>> ELSE VDiv(v, Norm(v))

\* systemDipoleMomentVector, given the rows of the three files: the columns
\* of the 3 x n array it returns.  np.vstack needs rows of one length.
SystemDipoleMomentVector(files) ==
  LET mux == Scaled(LoadTxt(files.x, 1)).data
      muy == Scaled(LoadTxt(files.y, 1)).data
      muz == Scaled(LoadTxt(files.z, 1)).data
  IN IF Len(mux) # Len(muy) \/ Len(muy) # Len(muz) THEN Raised("ValueError")
     ELSE Returned([i \in 1..Len(mux) |-> UnitColumn(<<mux[i], muy[i], muz[i]>>)])

\* the sum of row k of mu_hat * mu_hat over the columns from i on
RECURSIVE SumOfSquares(_, _, _)
SumOfSquares(mu_hat, k, i) ==
  IF i > Len(mu_hat) THEN R(0)
  ELSE IF mu_hat[i][k] = NaN \/ SumOfSquares(mu_hat, k, i + 1) = NaN THEN NaN
  ELSE RAdd(RMul(mu_hat[i][k], mu_hat[i][k]), SumOfSquares(mu_hat, k, i + 1))

\* variant: (mu_hat*mu_hat).sum(axis=1)
RowSum(mu_hat, k) == SumOfSquares(mu_hat, k, 1)

\* (mu_hat*mu_hat).mean(axis=1)[k]; the mean of an empty row is nan
RowMean(mu_hat, k) ==
  IF mu_hat = <<>> \/ SumOfSquares(mu_hat, k, 1) = NaN THEN NaN
  ELSE RDiv(SumOfSquares(mu_hat, k, 1), R(Len(mu_hat)))

\* systemDipoleAlignment after its call of systemDipoleMomentVector
Alignment(mu_hat) ==
  IF mu_hat.raised # "none"
  THEN [op |-> "systemDipoleAlignment", raised |-> mu_hat.raised, alignment |-> NoValue]
  ELSE [op |-> "systemDipoleAlignment", raised |-> "none",
        alignment |-> [k \in 1..3 |-> RowMean(mu_hat.value, k)]]

\* systemDipoleAlignment, given the rows of the three files
SystemDipoleAlignment(files) == Alignment(SystemDipoleMomentVector(files))

NoSamples == [x |-> <<>>, y |-> <<>>, z |-> <<>>]

NoOutput == [op |-> "none", raised |-> "none"]

(***************************************************************************)
(* The notebook as a state machine: one action per cell run or call         *)
(***************************************************************************)
NoCall ==
  [op |-> "none", number_of_proteins |-> 0, counter |-> 0,
   initial_position |-> Vec(0, 0, 0), direction |-> Vec(1, 0, 0),
   before |-> 0, records |-> <<>>, s |-> <<>>, raised |-> FALSE]

\* the records a call appended to the store `before`
Appended(before, after) == SubSeq(after, Len(before) + 1, Len(after))

Init ==
  /\ \E c \in Configurations :
       /\ radius = c.radius
       /\ charge = c.charge
       /\ dipole_scalar = c.dipole_scalar
       /\ fictitious_charge = c.fictitious_charge
  /\ global_position_storage = <<>>
  /\ position = Vec(0, 0, 0)
  /\ fibril_direction = Vec(1, 0, 0)
  /\ call = NoCall
  /\ prev = NoCall
  /\ calls = 0
  /\ potential = NoPotential
  /\ caller_bjerrum_length = 0
  /\ out_json = <<>>
  /\ system_dipole_moment_dat = <<>>
  /\ mu_dat = NoSamples
  /\ out = NoOutput

\* the first lines of the example cell: a fresh store, a fresh starting point
\* and a fresh growing direction
ExampleCell(p, d) ==
  /\ global_position_storage' = <<>>
  /\ position' = p
  /\ fibril_direction' = d
  /\ call' = NoCall
  /\ prev' = NoCall
  /\ calls' = 0
  /\ potential' = NoPotential
  /\ UNCHANGED <<config, caller_bjerrum_length, evaporation>>

\* global_position_storage = [] on its own
ResetStore ==
  /\ global_position_storage # <<>>
  /\ global_position_storage' = <<>>
  /\ potential' = NoPotential
  /\ UNCHANGED <<config, position, fibril_direction, call, prev, calls,
                 caller_bjerrum_length, evaporation>>

\* the state after a generator call that returned (or raised) ret: the store
\* and the caller's starting-point array as the call left them, and the call
\* on record
Generated(op, number_of_proteins, counter, direction, ret) ==
  /\ global_position_storage' = ret.store
  /\ position' = ret.initial
  /\ call' = [op |-> op, number_of_proteins |-> number_of_proteins, counter |-> counter,
              initial_position |-> position, direction |-> direction,
              before |-> Len(global_position_storage),
              records |-> Appended(global_position_storage, ret.store),
              s |-> ret.s, raised |-> ret.raised]
  /\ prev' = call
  /\ calls' = calls + 1
  /\ potential' = NoPotential
  /\ UNCHANGED <<config, fibril_direction, caller_bjerrum_length, evaporation>>

\* makeMonopoleFibril(n, position, fibril_direction)
CallMonopoleFibril(n) ==
  /\ calls < MaxCalls
  /\ WithinBox(VAdd(position, VScale(R(n), FibrilDisplacement(fibril_direction))))
  /\ Generated("makeMonopoleFibril", n, 1, fibril_direction,
               MakeMonopoleFibril(global_position_storage, n, position, fibril_direction))

\* makeDipoleFibril(n, position, fibril_direction)
CallDipoleFibril(n) ==
  /\ calls < MaxCalls
  /\ WithinBox(VAdd(position, VScale(R(n), FibrilDisplacement(fibril_direction))))
  /\ Generated("makeDipoleFibril", n, 1, fibril_direction,
               MakeDipoleFibril(global_position_storage, n, position, fibril_direction))

\* makeDipoleEntry(counter, position, d), called on its own
CallDipoleEntry(counter, d) ==
  /\ calls < MaxCalls
  /\ Generated("makeDipoleEntry", 1, counter, d,
               KeepsArray(MakeDipoleEntry(global_position_storage, counter, position, d),
                          position))

\* variant: the loop of calcPotential run at the top level of the notebook,
\* where its loop variable `radius` is the global of that name
CallCalcPotentialAtTopLevel(t) ==
  /\ potential' = CalcPotential(global_position_storage, t)
  /\ radius' = IF global_position_storage = <<>> THEN radius
               ELSE global_position_storage[Len(global_position_storage)].radius
  /\ UNCHANGED <<charge, dipole_scalar, fictitious_charge, global_position_storage,
                 position, fibril_direction, call, prev, calls,
                 caller_bjerrum_length, evaporation>>

\* calcPotential(t)
CallCalcPotential(t) ==
  /\ potential' = CalcPotential(global_position_storage, t)
  /\ UNCHANGED <<config, global_position_storage, position, fibril_direction,
                 call, prev, calls, caller_bjerrum_length, evaporation>>

Next ==
  \/ \E p \in Positions, d \in Directions : ExampleCell(p, d)
  \/ ResetStore
  \/ \E n \in 0..MaxProteins : CallMonopoleFibril(n)
  \/ \E n \in 0..MaxProteins : CallDipoleFibril(n)
  \/ \E counter \in 1..MaxCounter, d \in Directions : CallDipoleEntry(counter, d)
  \/ \E t \in Targets : CallCalcPotential(t)

Spec == Init /\ [][Next]_vars

(***************************************************************************)
(* The fibril notebook run cell by cell, by a caller who sets a Bjerrum     *)
(* length of their own before the potential is evaluated                    *)
(***************************************************************************)
\* values the caller gives the Bjerrum length: of water, and a round one
CallerBjerrumLengths == {7, 100}

\* the makeDipoleFibril call of the example cell, which returned (or raised)
\* ret
ExampleFibril(n, ret) ==
  /\ global_position_storage' = ret.store
  /\ position' = ret.initial
  /\ call' = [op |-> "makeDipoleFibril", number_of_proteins |-> n, counter |-> 1,
              initial_position |-> Vec(0, 0, 0), direction |-> Vec(1, 0, 0),
              before |-> 0, records |-> ret.store, s |-> ret.s, raised |-> ret.raised]

\* the example cell as a whole, for proteins_per_fibril = n: a fresh store,
\* position and fibril_direction, then makeDipoleFibril
RunExampleCell(n) ==
  /\ fibril_direction' = Vec(1, 0, 0)
  /\ ExampleFibril(n, MakeDipoleFibril(<<>>, n, Vec(0, 0, 0), Vec(1, 0, 0)))
  /\ prev' = NoCall
  /\ calls' = 1
  /\ potential' = NoPotential
  /\ UNCHANGED <<config, caller_bjerrum_length, evaporation>>

\* bjerrum_length = b in a cell of the notebook: a global of that name
SetBjerrumLength(b) ==
  /\ caller_bjerrum_length' = b
  /\ potential' = NoPotential
  /\ UNCHANGED <<config, global_position_storage, position, fibril_direction,
                 call, prev, calls, evaporation>>

NextOverride ==
  \/ \E n \in 0..MaxProteins : RunExampleCell(n)
  \/ \E b \in CallerBjerrumLengths : SetBjerrumLength(b)
  \/ \E t \in Targets : CallCalcPotential(t)

SpecOverride == Init /\ [][NextOverride]_vars

(***************************************************************************)
(* The cell of the reduction factor (evaporation notebook) and the files    *)
(* it reads                                                                 *)
(***************************************************************************)
\* a dipole moment of d Debye in the unit of the simulation output, e Angstrom
Moment(d) == RMul(R(d), Reduce(2081943, 10000000))

\* entries of the 'analysis' list: one of another analysis; the multipole
\* analysis of a protein of 385 D; one of 100 D that has another key in front
\* of 'multipole'; and multipole entries that lack 'protein', the moment, or
\* 'molecules'
EntryKinds ==
  << << <<"systemenergy", [file |-> "energy.dat"]>> >>,
     << <<"multipole", [molecules |-> [protein |-> [mu |-> Moment(385)]]]>> >>,
     << <<"nstep", [value |-> R(10)]>>,
        <<"multipole", [molecules |-> [protein |-> [mu |-> Moment(100)]]]>> >>,
     << <<"multipole", [molecules |-> [counterion |-> [mu |-> Moment(1)]]]>> >>,
     << <<"multipole", [molecules |-> [protein |-> [Z |-> R(7)]]]>> >>,
     << <<"multipole", [nstep |-> R(10)]>> >> >>

\* rows of system_dipole_moment.dat.gz: step, running average, system dipole
RowKinds ==
  << <<R(0), Moment(500), Moment(500)>>,
     <<R(10), Moment(747), Moment(994)>> >>

\* number_of_proteins of the simulated box: the notebook's own, and a pair
ProteinCounts == {5, 2}

\* the simulation writes an entry to out.json
WriteEntry(i) ==
  /\ Len(out_json) < MaxEntries
  /\ out_json' = Append(out_json, EntryKinds[i])
  /\ out' = NoOutput
  /\ UNCHANGED <<fibrils, system_dipole_moment_dat, mu_dat>>

\* the simulation writes a row to system_dipole_moment.dat.gz
WriteRow(i) ==
  /\ Len(system_dipole_moment_dat) < MaxRows
  /\ system_dipole_moment_dat' = Append(system_dipole_moment_dat, RowKinds[i])
  /\ out' = NoOutput
  /\ UNCHANGED <<fibrils, out_json, mu_dat>>

\* the result of a getBareDipoleMoment call
BareDipoleMoment(ret) ==
  [op |-> "getBareDipoleMoment", raised |-> ret.raised, mu_single_protein |-> ret.value]

\* getBareDipoleMoment('out.json')
CallGetBareDipoleMoment ==
  /\ out' = BareDipoleMoment(GetBareDipoleMoment(out_json))
  /\ UNCHANGED <<fibrils, out_json, system_dipole_moment_dat, mu_dat>>

\* the cell of the reduction factor, with number_of_proteins = n
RunReductionCell(n) ==
  /\ out' = Reduction(n, GetBareDipoleMoment(out_json),
                      GetSystemDipoleMoment(system_dipole_moment_dat))
  /\ UNCHANGED <<fibrils, out_json, system_dipole_moment_dat, mu_dat>>

NextReduction ==
  \/ \E i \in 1..Len(EntryKinds) : WriteEntry(i)
  \/ \E i \in 1..Len(RowKinds) : WriteRow(i)
  \/ CallGetBareDipoleMoment
  \/ \E n \in ProteinCounts : RunReductionCell(n)

SpecReduction == Init /\ [][NextReduction]_vars

(***************************************************************************)
(* The cell of the dipole alignment (evaporation notebook) and the files    *)
(* it reads                                                                 *)
(***************************************************************************)
\* system dipole vectors the simulation samples, in e Angstrom: along z,
\* three times that, two parallel ones in the xy plane, an oblique one, and
\* a vanishing one
SampleKinds ==
  << <<0, 0, 1>>, <<0, 0, 3>>, <<3, -4, 0>>, <<6, -8, 0>>, <<2, -1, 2>>, <<0, 0, 0>> >>

\* a file with one more row: the step and the component
WithRow(rows, component) == Append(rows, <<R(Len(rows)), R(component)>>)

\* the simulation writes a sample to mu_x.dat.gz, mu_y.dat.gz and mu_z.dat.gz
WriteSample(i) ==
  /\ Len(mu_dat.x) < MaxSamples
  /\ mu_dat' = [x |-> WithRow(mu_dat.x, SampleKinds[i][1]),
                y |-> WithRow(mu_dat.y, SampleKinds[i][2]),
                z |-> WithRow(mu_dat.z, SampleKinds[i][3])]
  /\ out' = NoOutput
  /\ UNCHANGED <<fibrils, out_json, system_dipole_moment_dat>>

\* the simulation is stopped between the writes of a sample: mu_z.dat.gz
\* does not get its row
WriteSampleInterrupted(i) ==
  /\ Len(mu_dat.x) < MaxSamples
  /\ mu_dat' = [x |-> WithRow(mu_dat.x, SampleKinds[i][1]),
                y |-> WithRow(mu_dat.y, SampleKinds[i][2]),
                z |-> mu_dat.z]
  /\ out' = NoOutput
  /\ UNCHANGED <<fibrils, out_json, system_dipole_moment_dat>>

\* the cell that ends in systemDipoleAlignment()
RunAlignmentCell ==
  /\ out' = SystemDipoleAlignment(mu_dat)
  /\ UNCHANGED <<fibrils, out_json, system_dipole_moment_dat, mu_dat>>

NextAlignment ==
  \/ \E i \in 1..Len(SampleKinds) : WriteSample(i)
  \/ \E i \in 1..Len(SampleKinds) : WriteSampleInterrupted(i)
  \/ RunAlignmentCell

SpecAlignment == Init /\ [][NextAlignment]_vars

(***************************************************************************)
(* Properties                                                               *)
(***************************************************************************)
Builders == {"makeMonopoleFibril", "makeDipoleFibril"}

\* the scalar k * dipole_scalar / (2 * fictitious_charge)
DisplacementLength ==
  RDiv(RMul(debye_to_electron_angstrom, dipole_scalar), RMul(R(2), fictitious_charge))

\* direction / |direction|
UnitVector(direction) == VDiv(direction, Norm(direction))

\* the positions of the bead records among the records of a generator call:
\* every record of a monopole fibril, every third record of a dipole call
BeadCentres(c) ==
  IF c.op = "makeMonopoleFibril"
  THEN [i \in 1..Len(c.records) |-> c.records[i].pos]
  ELSE [i \in 1..((Len(c.records) + 2) \div 3) |-> c.records[3 * i - 2].pos]

\* C1: whenever the check displacement_length < radius fails in
\* makeDipoleEntry, the call fails with no ATOM entry produced and no record
\* appended to the store.
C1_CheckBeforeAnyRecord ==
  (call.op = "makeDipoleEntry" /\ ~RLess(DisplacementLength, radius))
    => (call.raised /\ call.s = <<>> /\ call.records = <<>>)

\* C2: calcPotential does not return a value (it fails) whenever the target
\* equals the position of a stored point charge; in particular it never
\* returns an infinite or NaN potential.
C2_CoincidentTargetFails ==
  (\E i \in DOMAIN global_position_storage :
      global_position_storage[i].pos = potential.target_position)
    => potential.kind = "none"

\* C3: within one fibril builder call the i-th generated record carries atom
\* index i, so no index is used twice in the returned text.
C3_SequentialIndices ==
  (call.op \in Builders /\ ~call.raised)
    => \A i \in DOMAIN call.s : call.s[i].atom_cnt = i

\* C4: from an empty store a builder call with n = 0 produces nothing and
\* returns empty text without error; with n = k >= 1 and valid parameters it
\* produces k (monopole) or 3k (dipole) records and one line of text per record.
C4_RecordCounts ==
  (/\ call.op \in Builders
   /\ call.before = 0
   /\ \/ call.number_of_proteins = 0
      \/ call.op = "makeMonopoleFibril"
      \/ RLess(DisplacementLength, radius))
    => /\ ~call.raised
       /\ Len(call.records) = IF call.op = "makeMonopoleFibril"
                              THEN call.number_of_proteins
                              ELSE 3 * call.number_of_proteins
       /\ Len(call.s) = Len(call.records)
       /\ (call.number_of_proteins = 0 => call.s = <<>> /\ call.records = <<>>)

C4_Witness ==
  /\ call.op = "makeDipoleFibril"
  /\ call.before = 0
  /\ call.number_of_proteins = 2
  /\ Len(call.records) = 6
  /\ Len(call.s) = 6

\* C5: the centre of bead i of a fibril is initial_position + i * 2 * radius *
\* direction / |direction|; consecutive centres are exactly 2 * radius apart
\* and the first bead sits at the initial position.
C5_BeadCentres ==
  call.op \in Builders =>
    LET centres == BeadCentres(call)
        step == RMul(R(2), radius)
    IN /\ (~call.raised => Len(centres) = call.number_of_proteins)
       /\ \A i \in DOMAIN centres :
            centres[i] = VAdd(call.initial_position,
                              VScale(RMul(R(i - 1), step), UnitVector(call.direction)))
       /\ \A i \in DOMAIN centres :
            i > 1 => Norm(VSub(centres[i], centres[i - 1])) = step

C5_Witness ==
  /\ call.op = "makeMonopoleFibril"
  /\ call.number_of_proteins = 2
  /\ call.direction = Vec(3, 4, 0)
  /\ call.initial_position = Vec(-30, 5, 0)
  /\ call.records[2].pos = Vec(-12, 29, 0)

\* the auxiliary records of the store are those of radius 1.0; the bead of
\* the positive one is the record before it, the bead of the negative one is
\* two records before it
IsAuxiliary(rec) == rec.radius = R(1) /\ rec.charge \in {fictitious_charge, RNeg(fictitious_charge)}

BeadIndexOf(i) == IF global_position_storage[i].charge = fictitious_charge THEN i - 1 ELSE i - 2

\* C6: when k * dipole_scalar / (2 * fictitious_charge) >= radius, equality
\* included, a dipole construction fails, and no auxiliary record of the store
\* ever lies at a distance >= radius from its bead centre.
C6_NoChargeOutsideBead ==
  /\ (/\ ~RLess(DisplacementLength, radius)
      /\ \/ call.op = "makeDipoleEntry"
         \/ call.op = "makeDipoleFibril" /\ call.number_of_proteins >= 1)
       => call.raised
  /\ \A i \in DOMAIN global_position_storage :
       IsAuxiliary(global_position_storage[i]) =>
         /\ BeadIndexOf(i) >= 1
         /\ global_position_storage[BeadIndexOf(i)].radius = radius
         /\ RLess(Norm(VSub(global_position_storage[i].pos,
                            global_position_storage[BeadIndexOf(i)].pos)), radius)

C6_Witness ==
  /\ DisplacementLength = radius
  /\ call.op = "makeDipoleEntry"
  /\ call.raised
  /\ \A i \in DOMAIN global_position_storage : ~IsAuxiliary(global_position_storage[i])

\* the terms of the sum over all stored records of charge / |target - position|
SumOverStore(store, target_position) ==
  [i \in 1..Len(store) |-> <<store[i].charge, VSub(target_position, store[i].pos)>>]

\* a vector whose length is a rational number
HasRationalNorm(v) ==
  LET D == Lcm(Lcm(v[1][2], v[2][2]), v[3][2])
      m == [i \in 1..3 |-> v[i][1] * (D \div v[i][2])]
      g == Gcd(Gcd(Abs(m[1]), Abs(m[2])), Abs(m[3]))
  IN g = 0 \/ LET n == (m[1] \div g) * (m[1] \div g) + (m[2] \div g) * (m[2] \div g)
                       + (m[3] \div g) * (m[3] \div g)
              IN \E r \in 0..n : r * r = n

\* the number a finite result with a single term stands for
SingleTermValue(p) == RMul(R(p.factor), RDiv(p.terms[1][1], Norm(p.terms[1][2])))

\* C7: for a store none of whose charges coincides with the target,
\* calcPotential returns bjerrum_length times the sum over all stored records
\* of charge / |target - position|: 0 for an empty store, bjerrum_length / d
\* for a single charge +1 at distance d.
C7_DirectSum ==
  (/\ potential.kind # "none"
   /\ \A i \in DOMAIN global_position_storage :
        global_position_storage[i].pos # potential.target_position)
    => /\ potential.kind = "finite"
       /\ potential.factor = bjerrum_length
       /\ potential.terms = SumOverStore(global_position_storage, potential.target_position)
       /\ (global_position_storage = <<>> => potential.terms = <<>>)
       /\ (/\ Len(global_position_storage) = 1
           /\ global_position_storage[1].charge = R(1)
           /\ HasRationalNorm(potential.terms[1][2]))
            => SingleTermValue(potential)
                 = RDiv(R(bjerrum_length),
                        Norm(VSub(potential.target_position, global_position_storage[1].pos)))

C7_Witness ==
  /\ potential.kind = "finite"
  /\ Len(global_position_storage) = 1
  /\ global_position_storage[1].charge = R(1)
  /\ global_position_storage[1].pos = Vec(0, 0, 0)
  /\ potential.target_position = Vec(0, -10, 0)
  /\ SingleTermValue(potential) = R(56)

C9_DipoleRecovered ==
  (call.op \in {"makeDipoleEntry", "makeDipoleFibril"} /\ ~call.raised)
    => \A b \in 1..(Len(call.records) \div 3) :
         LET bead == call.records[3 * b - 2]
             plus == call.records[3 * b - 1]
             minus == call.records[3 * b]
             mu == VAdd(VScale(plus.charge, plus.pos), VScale(minus.charge, minus.pos))
             requested == RMul(debye_to_electron_angstrom, dipole_scalar)
         IN /\ Norm(mu) = requested
            /\ RMul(RMul(R(2), fictitious_charge), Norm(VSub(plus.pos, bead.pos))) = requested

C9_Witness ==
  /\ call.op = "makeDipoleEntry"
  /\ ~call.raised
  /\ call.initial_position = Vec(-30, 5, 0)
  /\ call.direction = Vec(0, 0, -2)
  /\ dipole_scalar = R(DefaultDipoleScalar)
  /\ Len(call.records) = 3

\* C10: two calls of the same fibril builder made one after the other with
\* the same number_of_proteins, the same initial_position object and the same
\* direction return identical text and generate identical records.
C10_Deterministic ==
  (/\ call.op \in Builders
   /\ prev.op = call.op
   /\ prev.number_of_proteins = call.number_of_proteins
   /\ prev.direction = call.direction)
    => /\ call.s = prev.s
       /\ call.records = prev.records
       /\ call.raised = prev.raised

\* C11: a fibril builder call leaves the caller's initial_position and
\* direction arrays unchanged: after the call they hold the values they held
\* before it.
C11_ArgumentsUnchanged ==
  call.op \in Builders
    => /\ position = call.initial_position
       /\ fibril_direction = call.direction

\* the record that an ATOM line was written from
LineOfRecord(line, rec) ==
  /\ line.x = Format3f(rec.pos[1])
  /\ line.y = Format3f(rec.pos[2])
  /\ line.z = Format3f(rec.pos[3])
  /\ line.charge = Format2f(rec.charge)
  /\ line.radius = Format2f(rec.radius)

\* C12: the store is append-only and its records are immutable.  A generator
\* call leaves the records already stored as they are, in place and in order,
\* and adds its own behind them, one per makeAtomEntry call in the order of
\* the calls (the order of the lines returned), each holding the position,
\* charge and radius its line was written from, whatever the running position
\* did afterwards; calcPotential leaves the store as it is.
C12_AppendOnly ==
  [][/\ calls' = calls + 1
          => /\ global_position_storage' = global_position_storage \o call'.records
             /\ ~call'.raised
                  => /\ Len(call'.records) = Len(call'.s)
                     /\ \A i \in 1..Len(call'.s) :
                          LineOfRecord(call'.s[i], call'.records[i])
     /\ potential'.kind # "none"
          => global_position_storage' = global_position_storage]_vars

C12_Witness ==
  /\ calls = 2
  /\ call.op = "makeMonopoleFibril"
  /\ call.before > 0
  /\ Len(call.records) = 2
  /\ Len(global_position_storage) = call.before + 2
  /\ potential.kind = "finite"

WithMultipole ==
  { i \in 1..Len(out_json) : \E j \in 1..Len(out_json[i]) : out_json[i][j][1] = "multipole" }

\* the value at 'multipole' in entry i
MultipoleOf(i) ==
  out_json[i][CHOOSE j \in 1..Len(out_json[i]) : out_json[i][j][1] = "multipole"][2]

HasMoment(val) ==
  /\ "molecules" \in DOMAIN val
  /\ "protein" \in DOMAIN val.molecules
  /\ "mu" \in DOMAIN val.molecules.protein

\* C14: getBareDipoleMoment returns the value at molecules.protein.mu of the
\* first entry of the 'analysis' list that has the key 'multipole', divided by
\* 0.2081943 (Debye); when no entry has that key, or the path is missing in
\* the first entry that has it, the call fails and yields no value.
C14_FirstMultipoleOrError ==
  out.op = "getBareDipoleMoment"
    => IF WithMultipole = {}
       THEN out.raised = "AssertionError" /\ out.mu_single_protein = NoValue
       ELSE LET first == CHOOSE i \in WithMultipole : \A k \in WithMultipole : i <= k
            IN IF HasMoment(MultipoleOf(first))
               THEN /\ out.raised = "none"
                    /\ out.mu_single_protein
                         = RDiv(MultipoleOf(first).molecules.protein.mu,
                                Reduce(2081943, 10000000))
               ELSE out.raised = "KeyError" /\ out.mu_single_protein = NoValue

C14_Witness ==
  /\ out.op = "getBareDipoleMoment"
  /\ Len(out_json) = 2
  /\ WithMultipole = {2}
  /\ out.raised = "none"
  /\ out.mu_single_protein = R(385)

\* the last row of system_dipole_moment.dat.gz
LastRow == system_dipole_moment_dat[Len(system_dipole_moment_dat)]

\* C16: when the cell of the reduction factor has read the bare dipole and
\* the series file has rows, the system dipole is column 2 of the last row
\* divided by 0.2081943 (Debye), the per-protein effective dipole is the
\* system dipole divided by the protein count, and the reduction factor is
\* the bare dipole divided by the per-protein effective dipole.
C16_ReductionFactor ==
  (/\ out.op = "reduction"
   /\ out.raised \notin {"AssertionError", "KeyError"}
   /\ system_dipole_moment_dat # <<>>)
    => /\ out.raised = "none"
       /\ out.mu_system = RDiv(LastRow[3], Reduce(2081943, 10000000))
       /\ out.mu_single_protein_with_counter_ions = RDiv(out.mu_system, R(out.n))
       /\ out.factor = RDiv(out.mu_single_protein, out.mu_single_protein_with_counter_ions)

\* sample i of the three files, as whole numbers
Sample(i) == <<mu_dat.x[i][2][1], mu_dat.y[i][2][1], mu_dat.z[i][2][1]>>

\* the files hold a series of samples: as many rows in each
IsSeries == Len(mu_dat.x) = Len(mu_dat.y) /\ Len(mu_dat.y) = Len(mu_dat.z)

\* the squared direction cosines of v, from its direction alone: of the
\* shortest whole-number vector along v
DirectionSquares(v) ==
  LET g == Gcd(Gcd(Abs(v[1]), Abs(v[2])), Abs(v[3]))
      p == [k \in 1..3 |-> v[k] \div g]
      s == p[1] * p[1] + p[2] * p[2] + p[3] * p[3]
  IN [k \in 1..3 |-> Reduce(p[k] * p[k], s)]

\* the sum of component k of the squared direction cosines of samples 1..i
RECURSIVE SumOfDirections(_, _)
SumOfDirections(k, i) ==
  IF i = 0 THEN R(0) ELSE RAdd(SumOfDirections(k, i - 1), DirectionSquares(Sample(i))[k])

\* C15: for a non-empty series of samples none of which vanishes,
\* systemDipoleAlignment returns three values, each in [0, 1], that sum to 1;
\* they are (0, 0, 1) when every sample is a positive multiple of (0, 0, 1);
\* and they are the means of the squared direction cosines of the samples,
\* which the lengths of the samples do not enter.
C15_Alignment ==
  (/\ out.op = "systemDipoleAlignment"
   /\ IsSeries
   /\ mu_dat.x # <<>>
   /\ \A i \in 1..Len(mu_dat.x) : Sample(i) # <<0, 0, 0>>)
    => /\ out.raised = "none"
       /\ \A k \in 1..3 : /\ out.alignment[k] # NaN
                          /\ ~RLess(out.alignment[k], R(0))
                          /\ ~RLess(R(1), out.alignment[k])
       /\ RAdd(RAdd(out.alignment[1], out.alignment[2]), out.alignment[3]) = R(1)
       /\ (\A i \in 1..Len(mu_dat.x) :
             Sample(i)[1] = 0 /\ Sample(i)[2] = 0 /\ Sample(i)[3] > 0)
            => out.alignment = <<R(0), R(0), R(1)>>
       /\ \A k \in 1..3 :
            out.alignment[k] = RDiv(SumOfDirections(k, Len(mu_dat.x)), R(Len(mu_dat.x)))

C15_Witness ==
  /\ out.op = "systemDipoleAlignment"
  /\ Len(mu_dat.x) = 2
  /\ Sample(1) = <<6, -8, 0>>
  /\ Sample(2) = <<2, -1, 2>>
  /\ out.alignment = << <<181, 450>>, <<169, 450>>, <<2, 9>> >>

\* C17: the Bjerrum length of the potential evaluator is 560 unless the
\* caller gives it another value, and the sum of the charge/distance terms is
\* multiplied by it once.
C17_CallerBjerrumLength ==
  potential.kind = "finite"
    => /\ potential.factor = IF caller_bjerrum_length = 0 THEN 560
                             ELSE caller_bjerrum_length
       /\ potential.terms = SumOverStore(global_position_storage, potential.target_position)

IsPrefix(s, longer) == Len(s) <= Len(longer) /\ SubSeq(longer, 1, Len(s)) = s

\* a + b of two values calcPotential returned for one target
AddPotentials(a, b) ==
  LET sum == FloatAdd([kind |-> a.kind, terms |-> a.terms],
                      [kind |-> b.kind, terms |-> b.terms])
  IN [target_position |-> a.target_position, kind |-> sum.kind,
      factor |-> a.factor, terms |-> sum.terms]

\* two generator calls were made on a store that was empty before the first
\* and was not rebound since
TwoCallsNoReset ==
  /\ calls >= 2
  /\ prev.before = 0
  /\ call.before = Len(prev.records)
  /\ Len(global_position_storage) = call.before + Len(call.records)

\* after generator calls A then B without a reset the store is the records
\* of A followed by those of B, and the potential is that of A alone plus
\* that of B alone at the same target
SumOfTwoCalls ==
  TwoCallsNoReset
    => /\ global_position_storage = prev.records \o call.records
       /\ potential.kind # "none"
            => /\ CalcPotential(prev.records, potential.target_position).factor
                    = CalcPotential(call.records, potential.target_position).factor
               /\ potential
                    = AddPotentials(CalcPotential(prev.records, potential.target_position),
                                    CalcPotential(call.records, potential.target_position))

\* C18: generator calls made without resetting the store accumulate: the
\* store holds the records of the calls in call order and calcPotential sums
\* over all of them, so the potential after A then B is that of A plus that of
\* B; records are discarded only by binding the store to an empty list.
C18_Accumulates ==
  /\ []SumOfTwoCalls
  /\ [][~IsPrefix(global_position_storage, global_position_storage')
          => global_position_storage' = <<>> /\ calls' <= calls]_vars

C18_Witness ==
  /\ TwoCallsNoReset
  /\ prev.op = "makeMonopoleFibril"
  /\ Len(prev.records) = 2
  /\ call.op = "makeDipoleFibril"
  /\ Len(call.records) = 3
  /\ potential.kind = "finite"
  /\ Len(potential.terms) = 5
  /\ potential.target_position = Vec(0, -10, 0)

\* the sum of the charges of the records
RECURSIVE SumOfCharges(_)
SumOfCharges(records) ==
  IF records = <<>> THEN R(0) ELSE RAdd(Head(records).charge, SumOfCharges(Tail(records)))

\* the store was filled from empty by makeDipoleFibril calls that returned
OnlyDipoleFibrils ==
  \/ /\ calls = 1
     /\ call.op = "makeDipoleFibril" /\ ~call.raised
     /\ call.before = 0
     /\ global_position_storage = call.records
  \/ /\ TwoCallsNoReset
     /\ prev.op = "makeDipoleFibril" /\ ~prev.raised
     /\ call.op = "makeDipoleFibril" /\ ~call.raised
     /\ global_position_storage = prev.records \o call.records

====
